---- MODULE Spec2Model ----
(***************************************************************************)
(* Model of dashboard.py, the Dodge family migration dashboard: the load   *)
(* of the spreadsheet (totals row, rows without coordinates dropped,       *)
(* location names title-cased, generation list), the per-generation filter *)
(* and the long-form expansion, re-executed on every user interaction.     *)
(*                                                                         *)
(* A missing cell (pandas NaN) is the empty tuple <<>>; a present value v  *)
(* is the one-element tuple <<v>>.  Strings the code inspects character by *)
(* character (location names, Roman numerals, column-name tokens) are      *)
(* tuples of one-character strings.                                        *)
(***************************************************************************)
EXTENDS Integers, Sequences, FiniteSets, TLC

\* ------------------------------------------------------------------------
\* Bounds of the model
\* ------------------------------------------------------------------------
MaxRows == 3

MaxCount == 1

MaxGens == 2

MaxRoman == 2000

\* ------------------------------------------------------------------------
\* Missing values
\* ------------------------------------------------------------------------
NaN == <<>>

Some(v) == <<v>>

isna(x) == x = NaN


\* x >= 0 in place of x > 0
GtZero_or_equal(x) == IF isna(x) THEN FALSE ELSE x[1] >= 0

\* x > 0 on a cell: a comparison with NaN is False
GtZero(x) == IF isna(x) THEN FALSE ELSE x[1] > 0

\* fillna(0) followed by the integer value
fillna0(x) == IF isna(x) THEN 0 ELSE x[1]

\* ------------------------------------------------------------------------
\* Characters and strings
\* ------------------------------------------------------------------------
LowerChars ==
  << "a","b","c","d","e","f","g","h","i","j","k","l","m",
     "n","o","p","q","r","s","t","u","v","w","x","y","z" >>

UpperChars ==
  << "A","B","C","D","E","F","G","H","I","J","K","L","M",
     "N","O","P","Q","R","S","T","U","V","W","X","Y","Z" >>

\* upper-case letter -> lower-case letter, and the reverse
lower_map ==
  [c \in {UpperChars[i] : i \in DOMAIN UpperChars} |->
     LowerChars[CHOOSE i \in DOMAIN UpperChars : UpperChars[i] = c]]

upper_map ==
  [c \in {LowerChars[i] : i \in DOMAIN LowerChars} |->
     UpperChars[CHOOSE i \in DOMAIN LowerChars : LowerChars[i] = c]]

IsCased(c) == c \in DOMAIN lower_map \/ c \in DOMAIN upper_map

ToLower(c) == IF c \in DOMAIN lower_map THEN lower_map[c] ELSE c

ToUpper(c) == IF c \in DOMAIN upper_map THEN upper_map[c] ELSE c

\* sub in s (Python substring test, case-sensitive)
Contains(s, sub) ==
  \E i \in 1..(Len(s) - Len(sub) + 1) : SubSeq(s, i, i + Len(sub) - 1) = sub

\* str.lower()
lower(s) == [i \in 1..Len(s) |-> ToLower(s[i])]

\* str.title(): a cased character is upper-cased when it starts a word
\* (follows an uncased character or nothing) and lower-cased otherwise
title(s) ==
  [i \in 1..Len(s) |->
     IF i = 1 \/ ~IsCased(s[i - 1]) THEN ToUpper(s[i]) ELSE ToLower(s[i])]

\* Series.str.contains(pat, case=False, na=False) on one cell
str_contains_nocase(cell, pat) ==
  IF isna(cell) THEN FALSE ELSE Contains(lower(cell[1]), lower(pat))

\* Series.str.title() on one cell: NaN stays NaN
str_title(cell) == IF isna(cell) THEN NaN ELSE Some(title(cell[1]))

\* str(cell): the text of a NaN cell is "nan"
str(cell) == IF isna(cell) THEN <<"n","a","n">> ELSE cell[1]

total_pat == <<"t","o","t","a","l">>

Total_pat == <<"T","o","t","a","l">>

\* ------------------------------------------------------------------------
\* Roman numerals
\* ------------------------------------------------------------------------
roman_dict ==
  [c \in {"I","V","X","L","C","D","M"} |->
     CASE c = "I" -> 1
       [] c = "V" -> 5
       [] c = "X" -> 10
       [] c = "L" -> 50
       [] c = "C" -> 100
       [] c = "D" -> 500
       [] c = "M" -> 1000]

RECURSIVE roman_scan(_, _, _, _)
\* the loop of roman_to_int, with i the position still to read (right to left)
roman_scan(roman, i, total, prev_value) ==
  IF i = 0 THEN total
  ELSE LET value == roman_dict[roman[i]]
       IN  roman_scan(roman, i - 1,
                      IF value < prev_value THEN total - value ELSE total + value,
                      value)

RECURSIVE roman_sum(_, _)
roman_sum(roman, i) ==
  IF i = 0 THEN 0 ELSE roman_sum(roman, i - 1) + roman_dict[roman[i]]

\* roman_to_int without the subtractive rule
roman_to_int_additive(roman) == roman_sum(roman, Len(roman))

roman_to_int(roman) == roman_scan(roman, Len(roman), 0, 0)

\* ------------------------------------------------------------------------
\* The spreadsheet
\* ------------------------------------------------------------------------
\* A column name is the tuple of its whitespace-delimited tokens.
Gen == <<"G","e","n">>

Born == <<"B","o","r","n">>

Died == <<"D","i","e","d">>

ColLocation == << <<"L","o","c","a","t","i","o","n">> >>

ColLatitude == << <<"L","a","t","i","t","u","d","e">> >>

ColLongitude == << <<"L","o","n","g","i","t","u","d","e">> >>

\* f"Gen {g} Born" and f"Gen {g} Died"
birth_col_of(g) == <<Gen, g, Born>>

death_col_of(g) == <<Gen, g, Died>>

\* "Gen" in col: the substring lies within one token, as it holds no blank
HasGen(col) == \E i \in DOMAIN col : Contains(col[i], Gen)

\* col.split()[1]
SecondToken(col) == col[2]

VARIABLES
  source,               \* the spreadsheet: [columns, rows], never written
  pc,                   \* "start", "ready" (a run completed) or "failed"
  totals,               \* Some(the totals row) once loaded
  data,                 \* the normalized table
  generations,          \* the generation list
  selected_generation,  \* value of the sidebar selectbox
  show_birth_markers, show_death_markers,
  show_birth_heatmap, show_death_heatmap,
  map_expanded,
  filtered_data,        \* rows of the selected generation
  birth_markers, death_markers,       \* index labels of the rows given a marker
  heat_data_births, heat_data_deaths, \* one point (index label) per person
  map_height,
  chart_data_cleaned,   \* the details table, with its appended Total row
  timeline_df,          \* the long-form sequence
  \* a call of roman_to_int taken on its own
  number,               \* the integer whose numeral is the argument
  roman,                \* the argument of roman_to_int
  value,                \* what roman_to_int returned
  rpc                   \* "idle", "call" or "returned"

romanVars == << number, roman, value, rpc >>

dashVars ==
  << source, pc, totals, data, generations, selected_generation,
     show_birth_markers, show_death_markers, show_birth_heatmap,
     show_death_heatmap, map_expanded, filtered_data, birth_markers,
     death_markers, heat_data_births, heat_data_deaths, map_height,
     chart_data_cleaned, timeline_df >>

vars == << dashVars, romanVars >>


\* the match made without case=False
TotalsMatches_case_sensitive(rows) ==
  LET Match(r) == IF isna(r.Location) THEN FALSE
                  ELSE Contains(r.Location[1], total_pat)
  IN  SelectSeq(rows, Match)

\* ------------------------------------------------------------------------
\* Load and preprocess
\* ------------------------------------------------------------------------
\* data[data["Location"].str.contains("total", case=False, na=False)]
TotalsMatches(rows) ==
  LET Match(r) == str_contains_nocase(r.Location, total_pat)
  IN  SelectSeq(rows, Match)


\* dropna(subset=["Latitude"]): the longitude is not looked at
dropna_latitude_only(rows) ==
  LET HasLatitude(r) == ~isna(r.Latitude)
  IN  SelectSeq(rows, HasLatitude)

\* data.dropna(subset=["Latitude", "Longitude"])
dropna(rows) ==
  LET HasCoords(r) == ~isna(r.Latitude) /\ ~isna(r.Longitude)
  IN  SelectSeq(rows, HasCoords)

\* data["Location"] = data["Location"].str.title()
TitleLocations(rows) ==
  [i \in 1..Len(rows) |-> [rows[i] EXCEPT !.Location = str_title(@)]]

\* {col.split()[1] for col in data.columns if "Gen" in col}
GenLabels(columns) == {SecondToken(col) : col \in {c \in columns : HasGen(c)}}

\* The orders in which a set can be iterated (list(set)): any arrangement.
Orderings(S) ==
  {o \in [1..Cardinality(S) -> S] : \A x \in S : \E i \in DOMAIN o : o[i] = x}

RECURSIVE InsertDesc(_, _, _)
\* x placed behind every element of the sorted list whose key is >= its own
InsertDesc(x, sortedList, key) ==
  IF sortedList = <<>> THEN <<x>>
  ELSE IF key[Head(sortedList)] >= key[x]
         THEN <<Head(sortedList)>> \o InsertDesc(x, Tail(sortedList), key)
         ELSE <<x>> \o sortedList

RECURSIVE SortDesc(_, _, _)
SortDesc(list, n, key) ==
  IF n = 0 THEN <<>>
  ELSE InsertDesc(list[n], SortDesc(list, n - 1, key), key)

\* sorted(list, key=..., reverse=True): stable, larger keys first
\* key is the function from the elements to their sort keys
sorted_reverse(list, key) == SortDesc(list, Len(list), key)


\* the sort without reverse=True: smaller values first
BuildGenerations_ascending(order) ==
  LET keys == [x \in {order[i] : i \in DOMAIN order} |-> 0 - roman_to_int(x)]
  IN  SortDesc(order, Len(order), keys)

\* generations = sorted(list({...}), key=roman_to_int, reverse=True)
BuildGenerations(order) ==
  sorted_reverse(order,
                 [x \in {order[i] : i \in DOMAIN order} |-> roman_to_int(x)])


\* the mask built with & in place of |
FilteredData_and(table, g) ==
  LET Project(r) ==
        [idx |-> r.idx, birth |-> r.counts[birth_col_of(g)],
         death |-> r.counts[death_col_of(g)], Location |-> r.Location,
         Latitude |-> r.Latitude, Longitude |-> r.Longitude]
      projected == [i \in 1..Len(table) |-> Project(table[i])]
      Keep(r) == GtZero(r.birth) /\ GtZero(r.death)
  IN  SelectSeq(projected, Keep)

\* ------------------------------------------------------------------------
\* Filter for the selected generation
\* ------------------------------------------------------------------------
\* data[[birth_col, death_col, "Location", "Latitude", "Longitude"]], then the
\* rows with birth > 0 or death > 0; idx is the index label the row keeps
FilteredData(table, g) ==
  LET Project(r) ==
        [idx |-> r.idx, birth |-> r.counts[birth_col_of(g)],
         death |-> r.counts[death_col_of(g)], Location |-> r.Location,
         Latitude |-> r.Latitude, Longitude |-> r.Longitude]
      projected == [i \in 1..Len(table) |-> Project(table[i])]
      Keep(r) == GtZero(r.birth) \/ GtZero(r.death)
  IN  SelectSeq(projected, Keep)

\* ------------------------------------------------------------------------
\* Map layers, details table
\* ------------------------------------------------------------------------
\* index labels of the rows that get a marker of a cluster
Markers(view, shown, field) ==
  LET Marked(r) == shown /\ GtZero(r[field])
      marked == SelectSeq(view, Marked)
  IN  [i \in 1..Len(marked) |-> marked[i].idx]

RECURSIVE HeatPoints(_, _, _)
\* one point per row and per unit of int(row[col]) over view.fillna(0)
HeatPoints(view, n, field) ==
  IF n = 0 THEN <<>>
  ELSE HeatPoints(view, n - 1, field)
         \o [k \in 1..fillna0(view[n][field]) |-> view[n].idx]

HeatData(view, shown, field) ==
  IF shown THEN HeatPoints(view, Len(view), field) ELSE <<>>

ExpandedHeight == 700

DefaultHeight == 400

RECURSIVE SumField(_, _, _)
SumField(rows, n, field) ==
  IF n = 0 THEN 0 ELSE SumField(rows, n - 1, field) + rows[n][field]

\* chart_data with Births and Deaths filled with 0, then the Total row appended
ChartDataCleaned(view) ==
  LET cleaned == [i \in 1..Len(view) |->
                    [Location |-> view[i].Location,
                     Births |-> fillna0(view[i].birth),
                     Deaths |-> fillna0(view[i].death)]]
      totals_row == [Location |-> Some(Total_pat),
                     Births |-> SumField(cleaned, Len(cleaned), "Births"),
                     Deaths |-> SumField(cleaned, Len(cleaned), "Deaths")]
  IN  Append(cleaned, totals_row)


\* the skip made as the loader finds the totals row, in any case
IsSkipped_any_case(r) == Contains(lower(str(r.Location)), total_pat)

\* ------------------------------------------------------------------------
\* Long-form expansion
\* ------------------------------------------------------------------------
\* "Total" in str(row["Location"])
IsSkipped(r) == Contains(str(r.Location), Total_pat)

\* row.get(col, 0)
row_get(r, col) == IF col \in DOMAIN r.counts THEN r.counts[col] ELSE Some(0)


\* fillna(0) applied to Deaths as well as to Births
RowEntries_fill_deaths(r, gens) ==
  [j \in 1..Len(gens) |->
     [src |-> r.idx, Location |-> r.Location, Latitude |-> r.Latitude,
      Longitude |-> r.Longitude, Generation |-> gens[j],
      Births |-> Some(fillna0(row_get(r, birth_col_of(gens[j])))),
      Deaths |-> Some(fillna0(row_get(r, death_col_of(gens[j]))))]]

\* the entries of one row, one per generation in list order; src is the index
\* label of the row the entry was built from (the loop variable idx);
\* Births already carries timeline_df["Births"].fillna(0)
RowEntries(r, gens) ==
  [j \in 1..Len(gens) |->
     [src |-> r.idx, Location |-> r.Location, Latitude |-> r.Latitude,
      Longitude |-> r.Longitude, Generation |-> gens[j],
      Births |-> Some(fillna0(row_get(r, birth_col_of(gens[j])))),
      Deaths |-> row_get(r, death_col_of(gens[j]))]]

RECURSIVE TimelineRows(_, _, _)
TimelineRows(table, n, gens) ==
  IF n = 0 THEN <<>>
  ELSE TimelineRows(table, n - 1, gens)
         \o (IF IsSkipped(table[n]) THEN <<>> ELSE RowEntries(table[n], gens))

TimelineData(table, gens) == TimelineRows(table, Len(table), gens)

\* ------------------------------------------------------------------------
\* One execution of the script, top to bottom
\* ------------------------------------------------------------------------
\* order: the iteration order of the label set; choice: the selectbox state,
\* NaN while the user has not chosen (the first option is then selected)
Script(order, choice, bm, dm, bh, dh, me) ==
  LET matches == TotalsMatches(source.rows)
  IN  /\ UNCHANGED << source, romanVars >>
      /\ IF matches = <<>>
           THEN \* .iloc[0] on an empty frame raises: the run stops here
                /\ pc' = "failed"
                /\ UNCHANGED << totals, data, generations, selected_generation,
                                show_birth_markers, show_death_markers,
                                show_birth_heatmap, show_death_heatmap,
                                map_expanded, filtered_data, birth_markers,
                                death_markers, heat_data_births,
                                heat_data_deaths, map_height,
                                chart_data_cleaned, timeline_df >>
           ELSE /\ pc' = "ready"
                /\ totals' = Some(matches[1])
                /\ data' = TitleLocations(dropna(source.rows))
                /\ generations' = BuildGenerations(order)
                /\ selected_generation' =
                     IF isna(choice) THEN generations'[1] ELSE choice[1]
                /\ show_birth_markers' = bm
                /\ show_death_markers' = dm
                /\ show_birth_heatmap' = bh
                /\ show_death_heatmap' = dh
                /\ filtered_data' = FilteredData(data', selected_generation')
                /\ map_expanded' = me
                /\ birth_markers' =
                     Markers(filtered_data', show_birth_markers', "birth")
                /\ death_markers' =
                     Markers(filtered_data', show_death_markers', "death")
                /\ heat_data_births' =
                     HeatData(filtered_data', show_birth_heatmap', "birth")
                /\ heat_data_deaths' =
                     HeatData(filtered_data', show_death_heatmap', "death")
                /\ map_height' =
                     IF map_expanded' THEN ExpandedHeight ELSE DefaultHeight
                /\ chart_data_cleaned' = ChartDataCleaned(filtered_data')
                /\ timeline_df' = TimelineData(data', generations')

SetOrders == Orderings(GenLabels(source.columns))

\* The first execution: every widget at its default.
FirstRun ==
  /\ pc = "start"
  /\ \E order \in SetOrders :
       Script(order, NaN, TRUE, TRUE, FALSE, FALSE, FALSE)


\* the selection changes but the script is not run again
SelectGeneration_no_rerun ==
  /\ pc = "ready"
  /\ \E g \in {generations[i] : i \in DOMAIN generations} \ {selected_generation} :
       selected_generation' = g
  /\ UNCHANGED << source, pc, totals, data, generations, show_birth_markers,
                  show_death_markers, show_birth_heatmap, show_death_heatmap,
                  map_expanded, filtered_data, birth_markers, death_markers,
                  heat_data_births, heat_data_deaths, map_height,
                  chart_data_cleaned, timeline_df, romanVars >>

\* The user picks another generation in the sidebar: the script runs again.
SelectGeneration ==
  /\ pc = "ready"
  /\ \E g \in {generations[i] : i \in DOMAIN generations} \ {selected_generation} :
       \E order \in SetOrders :
         Script(order, Some(g), show_birth_markers, show_death_markers,
                show_birth_heatmap, show_death_heatmap, map_expanded)

ToggleBirthMarkers ==
  /\ pc = "ready"
  /\ \E order \in SetOrders :
       Script(order, Some(selected_generation), ~show_birth_markers,
              show_death_markers, show_birth_heatmap, show_death_heatmap,
              map_expanded)

ToggleDeathMarkers ==
  /\ pc = "ready"
  /\ \E order \in SetOrders :
       Script(order, Some(selected_generation), show_birth_markers,
              ~show_death_markers, show_birth_heatmap, show_death_heatmap,
              map_expanded)

ToggleBirthHeatmap ==
  /\ pc = "ready"
  /\ \E order \in SetOrders :
       Script(order, Some(selected_generation), show_birth_markers,
              show_death_markers, ~show_birth_heatmap, show_death_heatmap,
              map_expanded)

ToggleDeathHeatmap ==
  /\ pc = "ready"
  /\ \E order \in SetOrders :
       Script(order, Some(selected_generation), show_birth_markers,
              show_death_markers, show_birth_heatmap, ~show_death_heatmap,
              map_expanded)

ToggleMapExpanded ==
  /\ pc = "ready"
  /\ \E order \in SetOrders :
       Script(order, Some(selected_generation), show_birth_markers,
              show_death_markers, show_birth_heatmap, show_death_heatmap,
              ~map_expanded)

Next ==
  \/ FirstRun
  \/ SelectGeneration
  \/ ToggleBirthMarkers
  \/ ToggleDeathMarkers
  \/ ToggleBirthHeatmap
  \/ ToggleDeathHeatmap
  \/ ToggleMapExpanded

\* ------------------------------------------------------------------------
\* Spreadsheets the model is run on
\* ------------------------------------------------------------------------
\* Three families of sheets, each widening one dimension of the input:
\*   NameSheets   1..MaxRows rows of every location name (missing, plain,
\*                "TOTAL", "subtotal"), the plain and the "TOTAL" rows with
\*                and without latitude, over one generation;
\*   CountSheets  two location rows with every pair of counts in
\*                NaN, 0..MaxCount, the first with and without longitude, and
\*                a totals row holding their sums, with and without latitude;
\*   GenSheets    every set of 1..MaxGens generation labels, over two location
\*                rows and a totals row holding their sums.
RomanLabels == { <<"I","V">>, <<"V","I">>, <<"I","X">> }

Ohio == Some(<<"o","h","i","o">>)

TOTAL == Some(<<"T","O","T","A","L">>)

Subtotal == Some(<<"s","u","b","t","o","t","a","l">>)

Names == {NaN, Ohio, TOTAL, Subtotal}

Cells == {NaN} \cup {Some(n) : n \in 0..MaxCount}

Coordinates == {NaN, Some(40)}

GenColumnsOf(labels) ==
  {birth_col_of(g) : g \in labels} \cup {death_col_of(g) : g \in labels}

ColumnsOf(labels) ==
  {ColLocation, ColLatitude, ColLongitude} \cup GenColumnsOf(labels)

LabelSets ==
  {S \in SUBSET RomanLabels : Cardinality(S) >= 1 /\ Cardinality(S) <= MaxGens}

\* the rows of a sheet, each with its index label (0-based, as read_excel gives)
Indexed(bodies) ==
  [i \in 1..Len(bodies) |->
     [idx |-> i - 1, Location |-> bodies[i].Location,
      Latitude |-> bodies[i].Latitude, Longitude |-> bodies[i].Longitude,
      counts |-> bodies[i].counts]]

Sheet(labels, bodies) ==
  [columns |-> ColumnsOf(labels), rows |-> Indexed(bodies)]

\* one birth and no recorded death in every generation
UnitCounts(labels) ==
  [c \in GenColumnsOf(labels) |-> IF c[3] = Born THEN Some(1) ELSE NaN]

\* per column, the sum of the location rows' counts, missing counted as 0
SumCounts(labels, locs) ==
  [c \in GenColumnsOf(labels) |->
     Some(IF Len(locs) = 2
            THEN fillna0(locs[1].counts[c]) + fillna0(locs[2].counts[c])
            ELSE fillna0(locs[1].counts[c]))]

NameLabels == { <<"I","X">> }

NameRows ==
  {r \in [Location : Names, Latitude : Coordinates, Longitude : {Some(40)},
          counts : {UnitCounts(NameLabels)}] :
     isna(r.Latitude) => r.Location \in {Ohio, TOTAL}}

NameSheets ==
  UNION { {Sheet(NameLabels, b) : b \in [1..n -> NameRows]} : n \in 1..MaxRows }

CountLabels == { <<"I","V">> }

CountRows(longitudes) ==
  [Location : {Ohio}, Latitude : {Some(40)}, Longitude : longitudes,
   counts : [GenColumnsOf(CountLabels) -> Cells]]

CountSheets ==
  { Sheet(CountLabels,
          << r1, r2, [Location |-> TOTAL, Latitude |-> lat, Longitude |-> Some(40),
                      counts |-> SumCounts(CountLabels, <<r1, r2>>)] >>)
      : <<r1, r2, lat>> \in
          CountRows(Coordinates) \X CountRows({Some(40)}) \X Coordinates }

\* birth and death count of one generation in the first row of a GenSheet
GenCellPairs == { <<NaN, Some(1)>>, <<Some(0), NaN>>, <<Some(1), NaN>> }

GenRowCounts(labels) ==
  { [c \in GenColumnsOf(labels) |->
       IF c[3] = Born THEN pairs[c[2]][1] ELSE pairs[c[2]][2]]
      : pairs \in [labels -> GenCellPairs] }

GenSheets ==
  UNION { { Sheet(labels,
                  << [Location |-> Ohio, Latitude |-> Some(40),
                      Longitude |-> Some(40), counts |-> f],
                     [Location |-> NaN, Latitude |-> Some(40),
                      Longitude |-> Some(40), counts |-> UnitCounts(labels)],
                     [Location |-> TOTAL, Latitude |-> NaN, Longitude |-> NaN,
                      counts |->
                        [c \in GenColumnsOf(labels) |->
                           Some(fillna0(f[c]) + fillna0(UnitCounts(labels)[c]))]] >>)
            : f \in GenRowCounts(labels) }
          : labels \in LabelSets }

\* ------------------------------------------------------------------------
\* The decoder on its own
\* ------------------------------------------------------------------------
DashInit ==
  /\ pc = "start"
  /\ totals = NaN
  /\ data = <<>>
  /\ generations = <<>>
  /\ selected_generation = <<>>
  /\ show_birth_markers = TRUE
  /\ show_death_markers = TRUE
  /\ show_birth_heatmap = FALSE
  /\ show_death_heatmap = FALSE
  /\ map_expanded = FALSE
  /\ filtered_data = <<>>
  /\ birth_markers = <<>>
  /\ death_markers = <<>>
  /\ heat_data_births = <<>>
  /\ heat_data_deaths = <<>>
  /\ map_height = DefaultHeight
  /\ chart_data_cleaned = <<>>
  /\ timeline_df = <<>>

Init ==
  /\ \/ source \in NameSheets
     \/ source \in CountSheets
     \/ source \in GenSheets
  /\ DashInit
  /\ number = 0 /\ roman = <<>> /\ value = 0 /\ rpc = "idle"

Spec == Init /\ [][Next]_vars

\* roman_to_int(roman) is called and returns
RomanToInt ==
  /\ rpc = "call"
  /\ value' = roman_to_int(roman)
  /\ rpc' = "returned"
  /\ UNCHANGED << number, roman, dashVars >>

NextRoman == RomanToInt

\* The standard numeral of n: largest symbol or subtractive pair first.
RomanTable ==
  << <<1000, <<"M">> >>, <<900, <<"C","M">> >>, <<500, <<"D">> >>,
     <<400, <<"C","D">> >>, <<100, <<"C">> >>, <<90, <<"X","C">> >>,
     <<50, <<"L">> >>, <<40, <<"X","L">> >>, <<10, <<"X">> >>,
     <<9, <<"I","X">> >>, <<5, <<"V">> >>, <<4, <<"I","V">> >>,
     <<1, <<"I">> >> >>

RECURSIVE ToRomanFrom(_, _)
ToRomanFrom(n, k) ==
  IF n = 0 THEN <<>>
  ELSE IF RomanTable[k][1] <= n
         THEN RomanTable[k][2] \o ToRomanFrom(n - RomanTable[k][1], k)
         ELSE ToRomanFrom(n, k + 1)

ToRoman(n) == ToRomanFrom(n, 1)

InitRoman ==
  /\ source = [columns |-> {}, rows |-> <<>>]
  /\ DashInit
  /\ number \in 1..MaxRoman
  /\ roman = ToRoman(number)
  /\ value = 0
  /\ rpc = "call"

SpecRoman == InitRoman /\ [][NextRoman]_vars

\* ------------------------------------------------------------------------
\* Properties
\* ------------------------------------------------------------------------
\* C5: roman_to_int returns the standard value of every well-formed numeral
\* (the numeral of each number 1..MaxRoman decodes to that number), and on
\* the fixed table I=1, IV=4, IX=9, XL=40, XC=90, MCMXCIV=1994.
C5_RomanValue ==
  rpc = "returned" =>
    /\ value = number
    /\ (roman = <<"I">> => value = 1)
    /\ (roman = <<"I","V">> => value = 4)
    /\ (roman = <<"I","X">> => value = 9)
    /\ (roman = <<"X","L">> => value = 40)
    /\ (roman = <<"X","C">> => value = 90)
    /\ (roman = <<"M","C","M","X","C","I","V">> => value = 1994)

C5_Witness ==
  /\ rpc = "returned"
  /\ roman = <<"M","C","M","X","C","I","V">>
  /\ value = 1994

\* --- vocabulary of the properties, stated on the sheet itself ------------
\* the source row an index label stands for
SourceRow(idx) == source.rows[idx + 1]

\* the location name holds the letters t, o, t, a, l in a row, in any case
NameHoldsTotal(r) ==
  /\ r.Location # NaN
  /\ \E i \in 1..(Len(r.Location[1]) - 4) :
       \A k \in 1..5 : ToLower(r.Location[1][i + k - 1]) = total_pat[k]

\* positions of the source rows whose name holds "total"
TotalPositions == {i \in DOMAIN source.rows : NameHoldsTotal(source.rows[i])}

HasCoordinates(r) == r.Latitude # NaN /\ r.Longitude # NaN

\* a count that is present and positive
Positive(cell) == cell # NaN /\ cell[1] >= 1

BirthOf(r, g) == r.counts[<<Gen, g, Born>>]

DeathOf(r, g) == r.counts[<<Gen, g, Died>>]

ViewLabels == {filtered_data[i].idx : i \in DOMAIN filtered_data}

\* C1: the FilteredView of the selected generation G (every label of the
\* generation list gets selected) holds a row of the normalized table iff
\* its birth[G] > 0 or death[G] > 0, each such row exactly once, and holds
\* nothing else; a missing count is not positive.
C1_FilterExact ==
  pc = "ready" =>
    /\ \A i \in DOMAIN filtered_data :
         \E j \in DOMAIN data : data[j].idx = filtered_data[i].idx
    /\ \A j \in DOMAIN data :
         Cardinality({i \in DOMAIN filtered_data :
                        filtered_data[i].idx = data[j].idx})
           = IF \/ Positive(BirthOf(data[j], selected_generation))
                \/ Positive(DeathOf(data[j], selected_generation))
               THEN 1 ELSE 0

\* a row with a missing birth count and a positive death count is in the
\* view, and a row with no positive count is left out of it
C1_Witness ==
  /\ pc = "ready"
  /\ \E j \in DOMAIN data :
       /\ BirthOf(data[j], selected_generation) = NaN
       /\ Positive(DeathOf(data[j], selected_generation))
       /\ data[j].idx \in ViewLabels
  /\ \E j \in DOMAIN data :
       /\ BirthOf(data[j], selected_generation) = NaN
       /\ DeathOf(data[j], selected_generation) = Some(0)
       /\ data[j].idx \notin ViewLabels

\* C2: the FilteredView never holds the totals row.
C2_TotalsExcluded ==
  pc = "ready" => totals[1].idx \notin ViewLabels

\* C6: no row of the FilteredView and no long-form entry comes from a source
\* row that lacks latitude or longitude.
C6_CoordinatesPresent ==
  pc = "ready" =>
    /\ \A i \in DOMAIN filtered_data :
         HasCoordinates(SourceRow(filtered_data[i].idx))
    /\ \A i \in DOMAIN timeline_df :
         HasCoordinates(SourceRow(timeline_df[i].src))

\* a location row with a birth count but without coordinates was loaded,
\* and both outputs were built
C6_Witness ==
  /\ pc = "ready"
  /\ filtered_data # <<>>
  /\ timeline_df # <<>>
  /\ \E i \in DOMAIN source.rows :
       /\ ~HasCoordinates(source.rows[i])
       /\ ~NameHoldsTotal(source.rows[i])
       /\ Positive(BirthOf(source.rows[i], selected_generation))

NameHoldsCapitalTotal(r) ==
  /\ r.Location # NaN
  /\ \E i \in 1..(Len(r.Location[1]) - 4) :
       \A k \in 1..5 : r.Location[1][i + k - 1] = Total_pat[k]

\* long-form entries built from the row of index label idx for generation g
EntriesOf(idx, g) ==
  {i \in DOMAIN timeline_df :
     timeline_df[i].src = idx /\ timeline_df[i].Generation = g}

GenerationSet == {generations[i] : i \in DOMAIN generations}

RECURSIVE SumOver(_, _)
\* sum of f over the finite set S of positions
SumOver(S, f) ==
  IF S = {} THEN 0
  ELSE LET x == CHOOSE y \in S : TRUE IN f[x] + SumOver(S \ {x}, f)

\* position of the TotalsRecord among the source rows
TotalsPosition == totals[1].idx + 1

LocationPositions == DOMAIN source.rows \ {TotalsPosition}

BirthsAt(positions, g) ==
  SumOver(positions, [i \in positions |-> fillna0(BirthOf(source.rows[i], g))])

\* the totals row holds, for each generation, the sum of the location rows'
\* birth counts
CleanSheet ==
  \A g \in GenerationSet :
    BirthOf(totals[1], g) = Some(BirthsAt(LocationPositions, g))

ViewBirths(positions) ==
  SumOver(positions, [i \in positions |-> fillna0(filtered_data[i].birth)])

\* C7, as the claim states it: on a clean sheet the births of the
\* FilteredView add up to the TotalsRecord's birth count.
C7_ViewSumIsTotal ==
  (pc = "ready" /\ CleanSheet) =>
    Some(ViewBirths(DOMAIN filtered_data))
      = BirthOf(totals[1], selected_generation)

\* C7, amended: on a clean sheet the births of the FilteredView's rows other
\* than the TotalsRecord add up to the TotalsRecord's birth count less the
\* births of the location rows that lack coordinates.
C7_ViewSumOfLocated ==
  (pc = "ready" /\ CleanSheet) =>
    ViewBirths({i \in DOMAIN filtered_data :
                  filtered_data[i].idx # totals[1].idx})
      = fillna0(BirthOf(totals[1], selected_generation))
          - BirthsAt({i \in LocationPositions :
                        ~HasCoordinates(source.rows[i])},
                     selected_generation)

\* a clean sheet with births in two located rows, one of which has no
\* recorded death
C7_Witness ==
  /\ pc = "ready"
  /\ CleanSheet
  /\ Len(filtered_data) >= 2
  /\ \A i \in DOMAIN filtered_data : filtered_data[i].idx # totals[1].idx
  /\ \E i \in DOMAIN filtered_data :
       Positive(filtered_data[i].birth) /\ filtered_data[i].death = NaN
  /\ ViewBirths(DOMAIN filtered_data) >= 2

\* --- long-form order and content ------------------------------------------
\* position of the row of index label idx in the normalized table
TablePosition(idx) == CHOOSE j \in DOMAIN data : data[j].idx = idx

GenerationPosition(g) == CHOOSE k \in DOMAIN generations : generations[k] = g

\* C9: long-form entries come record by record in table order and, within a
\* record, in generation-list order; an entry carries its record's counts
\* for its generation, a missing birth count as 0 and a missing death count
\* still missing.
C9_LongFormEntries ==
  pc = "ready" =>
    /\ \A i \in DOMAIN timeline_df : \A k \in DOMAIN timeline_df :
         i < k =>
           \/ TablePosition(timeline_df[i].src) < TablePosition(timeline_df[k].src)
           \/ /\ timeline_df[i].src = timeline_df[k].src
              /\ GenerationPosition(timeline_df[i].Generation)
                   < GenerationPosition(timeline_df[k].Generation)
    /\ \A i \in DOMAIN timeline_df :
         LET r == SourceRow(timeline_df[i].src)
             g == timeline_df[i].Generation
         IN  /\ timeline_df[i].Births
                  = IF BirthOf(r, g) = NaN THEN Some(0) ELSE BirthOf(r, g)
             /\ timeline_df[i].Deaths = DeathOf(r, g)
             /\ (DeathOf(r, g) = NaN => timeline_df[i].Deaths # Some(0))

\* two records over two generations were expanded; one entry has a missing
\* birth count turned into 0, one has a missing death count left missing
C9_Witness ==
  /\ pc = "ready"
  /\ Len(generations) >= 2
  /\ Len(timeline_df) >= 4
  /\ \E i \in DOMAIN timeline_df :
       /\ BirthOf(SourceRow(timeline_df[i].src), timeline_df[i].Generation) = NaN
       /\ timeline_df[i].Births = Some(0)
  /\ \E i \in DOMAIN timeline_df : timeline_df[i].Deaths = NaN

\* --- generation list -------------------------------------------------------
\* the value of a label of RomanLabels by the standard numeral table
StandardValue ==
  [g \in RomanLabels |-> CHOOSE n \in 1..10 : ToRoman(n) = g]

\* the labels named by the sheet's Born and Died columns
SheetLabels ==
  {g \in RomanLabels :
     birth_col_of(g) \in source.columns \/ death_col_of(g) \in source.columns}

\* a generation list that holds each label of the sheet once, in strictly
\* descending standard value
GenerationsInOrder ==
  /\ GenerationSet = SheetLabels
  /\ Len(generations) = Cardinality(SheetLabels)
  /\ \A k \in 1..(Len(generations) - 1) :
       StandardValue[generations[k]] > StandardValue[generations[k + 1]]

\* C4: every run builds a generation list that holds each distinct label
\* once in strictly descending decoded value, and a rebuild from the same
\* columns gives the same list.
C4_GenerationOrder ==
  [][(pc' = "ready") =>
       /\ GenerationsInOrder'
       /\ (pc = "ready" => generations' = generations)]_vars

\* the list of two labels was rebuilt after the user selected its second
C4_Witness ==
  /\ pc = "ready"
  /\ Len(generations) = 2
  /\ selected_generation = generations[2]
  /\ SheetLabels = { <<"I","V">>, <<"V","I">> }

\* --- interactions -----------------------------------------------------------
\* C10: an interaction leaves the normalized table, the TotalsRecord and the
\* generation list as they were, and the FilteredView it produces is the
\* filter of the table for the generation now selected, whatever was
\* selected before and whatever the five toggles are.
C10_Interaction ==
  [][(pc = "ready") =>
       /\ data' = data
       /\ totals' = totals
       /\ generations' = generations
       /\ filtered_data' = FilteredData(data, selected_generation')]_vars

\* the user has selected another generation, whose view differs from the
\* first one's, and changed every toggle
C10_Witness ==
  /\ pc = "ready"
  /\ Len(generations) = 2
  /\ selected_generation = generations[2]
  /\ filtered_data # FilteredData(data, generations[1])
  /\ Len(filtered_data) # Len(FilteredData(data, generations[1]))
  /\ ~show_birth_markers
  /\ ~show_death_markers
  /\ show_birth_heatmap
  /\ show_death_heatmap
  /\ map_expanded

====
